---- MODULE Spec2Model ----
(***************************************************************************)
(* The consensus rejection tracker of sui-core                             *)
(* (crates/sui-core/src/authority/mysticeti_rejected_transactions.rs).     *)
(*                                                                         *)
(* MysticetiRejectedTransactions keeps, behind one RwLock, the set of      *)
(* rejected transaction positions, a round-ordered index of that set and   *)
(* the last committed round.  reject_transaction and                       *)
(* update_last_committed_round are writers; wait_for_rejection is an async *)
(* reader that registers on a NotifyRead, checks membership and then races *)
(* its registration against an expiration poll and a timeout.              *)
(*                                                                         *)
(* Granularity.  A writer takes the write lock on its first line and keeps *)
(* it to its last, and has no await point inside, so every reader sees a   *)
(* writer's effect all at once: each writer is one action, enabled when no *)
(* reader holds the lock.  reject_transaction calls notify while it still  *)
(* holds the write lock; a waiter that registers between the insert and    *)
(* the notify is notified exactly like one that registered before the      *)
(* insert, so folding the notify into the same action loses no behaviour.  *)
(* wait_for_rejection is split at every point where another task can run:  *)
(* after register_one, at each read-lock acquisition, and at each await.   *)
(*                                                                         *)
(* Time.  One time unit is one period of the expiration poll               *)
(* (sleep(Duration::from_millis(50))).  A timeout `duration` is a number   *)
(* of such units; 0 is a timeout that is already due at the first poll of  *)
(* the select.                                                             *)
(*                                                                         *)
(* A position is (block_ref.round, transaction_index); the author and the  *)
(* digest of the block reference play no part in any decision of this code *)
(* beyond telling positions apart, which transaction_index does here.      *)
(*                                                                         *)
(* Rounds are small naturals: round + ROUND_EXPIRATION is taken far below  *)
(* the width of consensus_core::Round, so the sum never overflows.         *)
(* update_last_committed_round accepts any round, also one lower than the  *)
(* round it was given before; the code has no guard against that.          *)
(***************************************************************************)
EXTENDS Integers, FiniteSets, Sequences, TLC

\* ---------------------------------------------------------------- bounds
\* Positions carry rounds 1..MaxRound.
MaxRound == 2
\* Timeouts handed to wait_for_rejection: 0..MaxDuration poll periods.
MaxDuration == 1

\* ------------------------------------------------------ program constants
ROUND_EXPIRATION == 100

\* ------------------------------------------------------------ input sets
\* The wait_for_rejection tasks that can be in flight at once.
Waiters == {"w1", "w2"}

\* Spec runs one of them against the writers, over every position and
\* round; BroadcastSpec runs them all, over the positions of one round.
Callers == {"w1"}

\* Two positions of one block round share a bucket of round_lookup_map.
TransactionIndexes == {0, 1}

Rounds == 1..MaxRound

MysticetiTransactionPosition ==
    [round : Rounds, transaction_index : TransactionIndexes]

\* Rounds handed to update_last_committed_round: those around the expiration
\* boundary of every position round.  ROUND_EXPIRATION + r keeps round r
\* (equality) and ROUND_EXPIRATION + r + 1 expires it.
CommitRounds == (ROUND_EXPIRATION + 1)..(ROUND_EXPIRATION + MaxRound + 1)

Durations == 0..MaxDuration

\* Option<Round>: <<>> is None, <<r>> is Some(r).
None == << >>
Some(r) == << r >>

\* BTreeMap<Round, HashSet<..>>: a function from the rounds that are keys.
EmptyMap == [r \in {} |-> {}]

\* ----------------------------------------------------------------- state
VARIABLES
    rejected_transactions,  \* Inner.rejected_transactions : HashSet
    round_lookup_map,       \* Inner.round_lookup_map : BTreeMap<Round, HashSet>
    last_committed_round,   \* Inner.last_committed_round : Option<Round>
    readers,                \* the tasks holding `inner` for reading
    waiters,                \* one record per wait_for_rejection task
    last_op                 \* history: the last writer call and what it did

\* TransactionManagerV2 and what its tasks read and write.
VARIABLES
    epoch_alive,            \* the epoch of the epoch store has not ended
    available,              \* object cache: the input keys whose object exists
    executed,               \* transaction cache: digests with executed effects
    tasks,                  \* the spawned schedule_transaction tasks, in order
    tx_ready_certificates,  \* the hand-off channel, oldest first
    now                     \* tokio's Instant clock

tracker == << rejected_transactions, round_lookup_map, last_committed_round,
              readers, waiters, last_op >>

scheduler == << epoch_alive, available, executed, tasks,
                tx_ready_certificates, now >>

vars == << tracker, scheduler >>

inner == << rejected_transactions, round_lookup_map, last_committed_round >>

\* The first position, used to fill the fields of a task that is not running.
NoPosition == [round |-> 1, transaction_index |-> 0]

IdleWaiter ==
    [ pc            |-> "idle",
      pos           |-> NoPosition,
      duration      |-> 0,
      timer_left    |-> 0,       \* sleep(duration): periods until it is due
      sleep_left    |-> 0,       \* the poll's sleep(50ms): periods until due
      notified      |-> FALSE,   \* the registration has been resolved
      outcome       |-> "",      \* the `reason` of the returned SuiError
      \* history of the call in progress
      clean         |-> FALSE,   \* pos neither rejected nor expired so far
      stayed_expired |-> FALSE,  \* pos expired at the call and ever since
      ins_since_reg |-> FALSE ]  \* pos inserted after the registration

NoOp ==
    [ op |-> "none", pos |-> NoPosition, round |-> 0, stale |-> FALSE,
      removed |-> {},
      again |-> FALSE,    \* a reject of the position the last writer rejected
      advanced |-> FALSE ] \* an update to a round not below the one set before

Init ==
    /\ rejected_transactions = {}
    /\ round_lookup_map = EmptyMap
    /\ last_committed_round = None
    /\ readers = {}
    /\ waiters = [w \in Waiters |-> IdleWaiter]
    /\ last_op = NoOp
    /\ epoch_alive = TRUE
    /\ available = {}
    /\ executed = {}
    /\ tasks = << >>
    /\ tx_ready_certificates = << >>
    /\ now = 0

\* ------------------------------------------------------------ NotifyRead
\* A task holds a registration from register_one until wait_for_rejection
\* returns and drops it.
Registered(ws, w) == ws[w].pc \notin {"idle", "done"}

\* notify(key, value): resolve every registration currently held on `key`.
Notify(ws, key) ==
    [w \in Waiters |->
        IF Registered(ws, w) /\ ws[w].pos = key
        THEN [ws[w] EXCEPT !.notified = TRUE]
        ELSE ws[w]]

\* --------------------------------------------------------------- history
\* What a running call has seen of its position, brought up to date by each
\* writer: rej and lcr are the writer's results, ins the positions it
\* inserted.
Observed(ws, rej, lcr, ins) ==
    [w \in Waiters |->
        IF Registered(ws, w)
        THEN LET expired == lcr # None /\
                            ws[w].pos.round + ROUND_EXPIRATION < lcr[1]
             IN [ws[w] EXCEPT
                    !.clean = @ /\ ws[w].pos \notin rej /\ ~expired,
                    !.stayed_expired = @ /\ expired,
                    !.ins_since_reg = @ \/ ws[w].pos \in ins]
        ELSE ws[w]]

\* ------------------------------------------------------ reject_transaction
\* Variant: the window check is missing, every position is inserted.
RejectNeverStale(transaction_position, lcr) == FALSE

\* Variant: the window is taken one round too wide.
RejectStaleLate(transaction_position, lcr) ==
    /\ lcr # None
    /\ transaction_position.round + ROUND_EXPIRATION + 1 < lcr[1]

\* Lines 45-49: the position is outside the retention window.
RejectIsStale(transaction_position, lcr) ==
    /\ lcr # None
    /\ transaction_position.round + ROUND_EXPIRATION < lcr[1]

\* History: the writer call before this one was a reject of the same position.
SamePositionAgain(transaction_position) ==
    last_op.op = "reject" /\ last_op.pos = transaction_position

\* Variant: the bucket of the round is replaced, not added to
\* (insert(round, {position}) for entry(round).or_default().insert(position)).
BucketInsertOverwrites(map, transaction_position) ==
    [r \in (DOMAIN map) \cup {transaction_position.round} |->
        IF r = transaction_position.round
        THEN {transaction_position}
        ELSE map[r]]

\* Lines 50-57: insert into the set and into the bucket of the position's
\* round (entry(round).or_default().insert(position)).
BucketInsert(map, transaction_position) ==
    [r \in (DOMAIN map) \cup {transaction_position.round} |->
        IF r = transaction_position.round
        THEN (IF r \in DOMAIN map THEN map[r] ELSE {}) \cup {transaction_position}
        ELSE map[r]]

\* Variant: the notify resolves every registration, whatever its key.
reject_transaction_notifies_all(transaction_position) ==
    /\ UNCHANGED scheduler
    /\ readers = {}
    /\ IF RejectIsStale(transaction_position, last_committed_round)
       THEN /\ UNCHANGED << inner, waiters >>
            /\ last_op' = [NoOp EXCEPT !.op = "reject",
                                       !.pos = transaction_position,
                                       !.stale = TRUE,
                                       !.again = SamePositionAgain(transaction_position)]
       ELSE /\ rejected_transactions' =
                   rejected_transactions \cup {transaction_position}
            /\ round_lookup_map' =
                   BucketInsert(round_lookup_map, transaction_position)
            /\ UNCHANGED last_committed_round
            /\ waiters' =
                   [w \in Waiters |->
                       LET o == Observed(waiters, rejected_transactions',
                                         last_committed_round,
                                         {transaction_position})[w]
                       IN IF Registered(waiters, w)
                          THEN [o EXCEPT !.notified = TRUE] ELSE o]
            /\ last_op' = [NoOp EXCEPT !.op = "reject",
                                       !.pos = transaction_position,
                                       !.again = SamePositionAgain(transaction_position)]
    /\ UNCHANGED readers

\* Variant: the notify comes before the window check, so a stale call
\* resolves the registrations on its position without inserting it.
reject_transaction_notifies_when_stale(transaction_position) ==
    /\ UNCHANGED scheduler
    /\ readers = {}
    /\ IF RejectIsStale(transaction_position, last_committed_round)
       THEN /\ UNCHANGED inner
            /\ waiters' = Notify(waiters, transaction_position)
            /\ last_op' = [NoOp EXCEPT !.op = "reject",
                                       !.pos = transaction_position,
                                       !.stale = TRUE,
                                       !.again = SamePositionAgain(transaction_position)]
       ELSE /\ rejected_transactions' =
                   rejected_transactions \cup {transaction_position}
            /\ round_lookup_map' =
                   BucketInsert(round_lookup_map, transaction_position)
            /\ UNCHANGED last_committed_round
            /\ waiters' = Notify(Observed(waiters, rejected_transactions',
                                          last_committed_round,
                                          {transaction_position}),
                                 transaction_position)
            /\ last_op' = [NoOp EXCEPT !.op = "reject",
                                       !.pos = transaction_position,
                                       !.again = SamePositionAgain(transaction_position)]
    /\ UNCHANGED readers

\* Lines 43-59.
reject_transaction(transaction_position) ==
    /\ UNCHANGED scheduler
    /\ readers = {}                                  \* inner.write()
    /\ IF RejectIsStale(transaction_position, last_committed_round)
       THEN /\ UNCHANGED << inner, waiters >>        \* return
            /\ last_op' = [NoOp EXCEPT !.op = "reject",
                                       !.pos = transaction_position,
                                       !.stale = TRUE,
                                       !.again = SamePositionAgain(transaction_position)]
       ELSE /\ rejected_transactions' =
                   rejected_transactions \cup {transaction_position}
            /\ round_lookup_map' =
                   BucketInsert(round_lookup_map, transaction_position)
            /\ UNCHANGED last_committed_round
            /\ waiters' = Notify(Observed(waiters, rejected_transactions',
                                          last_committed_round,
                                          {transaction_position}),
                                 transaction_position)
            /\ last_op' = [NoOp EXCEPT !.op = "reject",
                                       !.pos = transaction_position,
                                       !.again = SamePositionAgain(transaction_position)]
    /\ UNCHANGED readers

\* --------------------------------------------- update_last_committed_round
\* Variant: the bucket whose round is exactly ROUND_EXPIRATION behind is
\* collected too (<= for <).
GcExpiredInclusive(next_round, round) == next_round + ROUND_EXPIRATION <= round

\* Line 118: the bucket of next_round is expired at `round`.
GcExpired(next_round, round) == next_round + ROUND_EXPIRATION < round

\* round_lookup_map.keys().next(): the lowest key of the ordered map.
FirstKey(map) == CHOOSE r \in DOMAIN map : \A q \in DOMAIN map : r <= q

\* round_lookup_map.remove(&next_round)
BucketRemove(map, next_round) ==
    [r \in (DOMAIN map) \ {next_round} |-> map[r]]

\* Variant: the buckets are popped but their positions stay in the set.
RECURSIVE GcLoopKeepsSet(_, _, _)
GcLoopKeepsSet(map, rejected, round) ==
    IF DOMAIN map = {}
    THEN [map |-> map, rejected |-> rejected]
    ELSE LET next_round == FirstKey(map)
         IN IF GcExpired(next_round, round)
            THEN GcLoopKeepsSet(BucketRemove(map, next_round), rejected, round)
            ELSE [map |-> map, rejected |-> rejected]

\* Variant: `if` for `while`, only the lowest bucket is ever collected.
GcOnce(map, rejected, round) ==
    IF DOMAIN map = {}
    THEN [map |-> map, rejected |-> rejected]
    ELSE LET next_round == FirstKey(map)
         IN IF GcExpired(next_round, round)
            THEN [map |-> BucketRemove(map, next_round),
                  rejected |-> rejected \ map[next_round]]
            ELSE [map |-> map, rejected |-> rejected]

\* Lines 117-126: pop the lowest bucket while it is expired, removing its
\* positions from the set; stop at the first bucket that is not expired.
\* The result is the pair of the map and the set after the loop.
RECURSIVE GcLoop(_, _, _)
GcLoop(map, rejected, round) ==
    IF DOMAIN map = {}
    THEN [map |-> map, rejected |-> rejected]
    ELSE LET next_round == FirstKey(map)
         IN IF GcExpired(next_round, round)
            THEN LET transactions == map[next_round]
                 IN GcLoop(BucketRemove(map, next_round),
                           rejected \ transactions, round)
            ELSE [map |-> map, rejected |-> rejected]

\* Variant: the round is stored only by the first call and by calls that
\* collect something (the store sits inside the loop body).
update_stores_round_when_collecting(round) ==
    /\ UNCHANGED scheduler
    /\ readers = {}
    /\ LET gc == GcLoop(round_lookup_map, rejected_transactions, round)
           stored == IF last_committed_round = None \/
                        gc.rejected # rejected_transactions
                     THEN Some(round) ELSE last_committed_round
       IN /\ round_lookup_map' = gc.map
          /\ rejected_transactions' = gc.rejected
          /\ last_committed_round' = stored
          /\ waiters' = Observed(waiters, gc.rejected, stored, {})
          /\ last_op' = [NoOp EXCEPT !.op = "update", !.round = round,
                            !.removed = rejected_transactions \ gc.rejected,
                            !.advanced = last_committed_round # None /\
                                         round >= last_committed_round[1]]
    /\ UNCHANGED readers

\* Lines 114-128.  The function is async but has no await point: it runs
\* to its end once polled.
update_last_committed_round(round) ==
    /\ UNCHANGED scheduler
    /\ readers = {}                                  \* inner.write()
    /\ LET gc == GcLoop(round_lookup_map, rejected_transactions, round)
       IN /\ round_lookup_map' = gc.map
          /\ rejected_transactions' = gc.rejected
          /\ last_committed_round' = Some(round)
          /\ waiters' = Observed(waiters, gc.rejected, Some(round), {})
          /\ last_op' = [NoOp EXCEPT !.op = "update", !.round = round,
                            !.removed = rejected_transactions \ gc.rejected,
                            !.advanced = last_committed_round # None /\
                                         round >= last_committed_round[1]]
    /\ UNCHANGED readers

\* ------------------------------------------------------ wait_for_rejection
\* Variant: the operands of the comparison are exchanged.
PollIsExpiredReversed(transaction_position, lcr) ==
    /\ lcr # None
    /\ lcr[1] + ROUND_EXPIRATION < transaction_position.round

\* Variant: a position exactly ROUND_EXPIRATION behind counts as expired.
PollIsExpiredInclusive(transaction_position, lcr) ==
    /\ lcr # None
    /\ transaction_position.round + ROUND_EXPIRATION <= lcr[1]

\* Lines 91-92: the expiration poll finds the position expired.
PollIsExpired(transaction_position, lcr) ==
    /\ lcr # None
    /\ transaction_position.round + ROUND_EXPIRATION < lcr[1]

\* The reason strings of the SuiError::TransactionRejectedByConsensus that
\* wait_for_rejection returns, as the source spells them.
ReasonAlreadyRejected == "Rejectd"      \* line 83
ReasonNotified == "Rejected"            \* line 103
ReasonExpired == "Expired"              \* line 106
ReasonTimedOut == "TimedOut"            \* line 109

\* The task has reached the select (lines 101-111) and has not returned.
InSelect(w) == waiters[w].pc \in {"select", "suspended"}

\* return SuiError::TransactionRejectedByConsensus { reason }
Returned(w, reason) ==
    [waiters EXCEPT ![w].pc = "done", ![w].outcome = reason]

\* Line 75: the call starts and registers on its position.  The history
\* fields start from what the tracker holds at that moment.
wait_register(w, transaction_position, duration) ==
    /\ UNCHANGED scheduler
    /\ waiters[w].pc = "idle"
    /\ LET expired == last_committed_round # None /\
                      transaction_position.round + ROUND_EXPIRATION
                          < last_committed_round[1]
       IN waiters' = [waiters EXCEPT ![w] =
            [ pc             |-> "registered",
              pos            |-> transaction_position,
              duration       |-> duration,
              timer_left     |-> duration,
              sleep_left     |-> 0,
              notified       |-> FALSE,
              outcome        |-> "",
              clean          |-> transaction_position \notin rejected_transactions
                                 /\ ~expired,
              stayed_expired |-> expired,
              ins_since_reg  |-> FALSE ]]
    /\ UNCHANGED << inner, readers, last_op >>

\* Lines 76-78: self.inner.read()
wait_read_lock(w) ==
    /\ UNCHANGED scheduler
    /\ waiters[w].pc = "registered"
    /\ readers' = readers \cup {w}
    /\ waiters' = [waiters EXCEPT ![w].pc = "checking"]
    /\ UNCHANGED << inner, last_op >>

\* Lines 79-85: .rejected_transactions.contains(&transaction_position); the
\* guard is a temporary of the condition and is dropped with it.
wait_check_membership(w) ==
    /\ UNCHANGED scheduler
    /\ waiters[w].pc = "checking"
    /\ readers' = readers \ {w}
    /\ IF waiters[w].pos \in rejected_transactions
       THEN waiters' = Returned(w, ReasonAlreadyRejected)
       ELSE waiters' = [waiters EXCEPT ![w].pc = "select"]
    /\ UNCHANGED << inner, last_op >>

\* Lines 102-104: the registration branch is ready.
select_registration(w) ==
    /\ UNCHANGED scheduler
    /\ InSelect(w)
    /\ waiters[w].notified
    /\ waiters' = Returned(w, ReasonNotified)
    /\ UNCHANGED << inner, readers, last_op >>

\* Lines 108-110: the sleep(duration) branch is ready.
select_timeout(w) ==
    /\ UNCHANGED scheduler
    /\ InSelect(w)
    /\ waiters[w].timer_left = 0
    /\ waiters' = Returned(w, ReasonTimedOut)
    /\ UNCHANGED << inner, readers, last_op >>

\* Line 89: the expiration branch is polled for the first time, or after its
\* sleep has elapsed, and takes the read lock.
expiration_read_lock(w) ==
    /\ UNCHANGED scheduler
    /\ InSelect(w)
    /\ waiters[w].sleep_left = 0
    /\ readers' = readers \cup {w}
    /\ waiters' = [waiters EXCEPT ![w].pc = "expcheck"]
    /\ UNCHANGED << inner, last_op >>

\* Variant: the guard is bound outside the block and lives across the
\* sleep(50ms).await.
expiration_check_keeps_guard(w) ==
    /\ UNCHANGED scheduler
    /\ waiters[w].pc = "expcheck"
    /\ IF PollIsExpired(waiters[w].pos, last_committed_round)
       THEN /\ waiters' = Returned(w, ReasonExpired)
            /\ readers' = readers \ {w}
       ELSE /\ waiters' = [waiters EXCEPT ![w].pc = "suspended",
                                          ![w].sleep_left = 1]
            /\ UNCHANGED readers
    /\ UNCHANGED << inner, last_op >>

\* Lines 90-98 and 105-107: the check under the read lock; the guard is
\* dropped at the end of the block, before the sleep.
expiration_check(w) ==
    /\ UNCHANGED scheduler
    /\ waiters[w].pc = "expcheck"
    /\ readers' = readers \ {w}
    /\ IF PollIsExpired(waiters[w].pos, last_committed_round)
       THEN waiters' = Returned(w, ReasonExpired)
       ELSE waiters' = [waiters EXCEPT ![w].pc = "suspended",
                                       ![w].sleep_left = 1]
    /\ UNCHANGED << inner, last_op >>

\* One poll period passes for a suspended task: its timers come one period
\* closer.
tick(w) ==
    /\ UNCHANGED scheduler
    /\ waiters[w].pc = "suspended"
    /\ waiters[w].timer_left > 0 \/ waiters[w].sleep_left > 0
    /\ waiters' = [waiters EXCEPT
          ![w].timer_left = IF @ > 0 THEN @ - 1 ELSE 0,
          ![w].sleep_left = 0]
    /\ UNCHANGED << inner, readers, last_op >>

\* The caller has the result; the task slot is free for another call.
wait_return(w) ==
    /\ UNCHANGED scheduler
    /\ waiters[w].pc = "done"
    /\ waiters' = [waiters EXCEPT ![w] = IdleWaiter]
    /\ UNCHANGED << inner, readers, last_op >>

\* ------------------------------------------------------------ the system
Next ==
    \/ \E p \in MysticetiTransactionPosition : reject_transaction(p)
    \/ \E r \in CommitRounds : update_last_committed_round(r)
    \/ \E w \in Callers, p \in MysticetiTransactionPosition, d \in Durations :
          wait_register(w, p, d)
    \/ \E w \in Callers : wait_read_lock(w)
    \/ \E w \in Callers : wait_check_membership(w)
    \/ \E w \in Callers : select_registration(w)
    \/ \E w \in Callers : select_timeout(w)
    \/ \E w \in Callers : expiration_read_lock(w)
    \/ \E w \in Callers : expiration_check(w)
    \/ \E w \in Callers : tick(w)
    \/ \E w \in Callers : wait_return(w)

Spec == Init /\ [][Next]_vars

\* Every task of Waiters against the writers, over the positions of the
\* lowest round and the rounds that keep and that expire it.
BroadcastPositions == {p \in MysticetiTransactionPosition : p.round = 1}

BroadcastCommitRounds == {ROUND_EXPIRATION + 1, ROUND_EXPIRATION + 2}

NextBroadcast ==
    \/ \E p \in BroadcastPositions : reject_transaction(p)
    \/ \E r \in BroadcastCommitRounds : update_last_committed_round(r)
    \/ \E w \in Waiters, p \in BroadcastPositions, d \in Durations :
          wait_register(w, p, d)
    \/ \E w \in Waiters : wait_read_lock(w)
    \/ \E w \in Waiters : wait_check_membership(w)
    \/ \E w \in Waiters : select_registration(w)
    \/ \E w \in Waiters : select_timeout(w)
    \/ \E w \in Waiters : expiration_read_lock(w)
    \/ \E w \in Waiters : expiration_check(w)
    \/ \E w \in Waiters : tick(w)
    \/ \E w \in Waiters : wait_return(w)

BroadcastSpec == Init /\ [][NextBroadcast]_vars

\* ============================================================ properties
\* The properties state the retention window on their own, not through the
\* operators of the code above.

\* C1: a position is in rejected_transactions exactly if it is in the
\* bucket of round_lookup_map keyed by its round, in every state, also in
\* those where a reader holds the lock; buckets hold nothing else.
C1_SetMatchesIndex ==
    /\ \A p \in MysticetiTransactionPosition :
          p \in rejected_transactions <=>
              (p.round \in DOMAIN round_lookup_map
                  /\ p \in round_lookup_map[p.round])
    /\ \A r \in DOMAIN round_lookup_map :
          \A q \in round_lookup_map[r] :
              q.round = r /\ q \in rejected_transactions

\* A reader holds the lock over a set that has been inserted into and
\* collected from: the last writer was a collection that removed positions
\* and left others.
C1_Witness ==
    /\ readers # {}
    /\ rejected_transactions # {}
    /\ last_op.op = "update"
    /\ last_op.removed # {}

\* C2: last_committed_round is unset, or every retained position and every
\* key of round_lookup_map is at most ROUND_EXPIRATION rounds behind it.
C2_RetainedWithinWindow ==
    \/ last_committed_round = None
    \/ /\ \A p \in rejected_transactions :
             p.round + ROUND_EXPIRATION >= last_committed_round[1]
       /\ \A r \in DOMAIN round_lookup_map :
             r + ROUND_EXPIRATION >= last_committed_round[1]

\* A collection has removed positions and has kept one that is exactly
\* ROUND_EXPIRATION rounds behind the committed round.
C2_Witness ==
    /\ last_op.op = "update"
    /\ last_op.removed # {}
    /\ last_committed_round # None
    /\ \E p \in rejected_transactions :
          p.round + ROUND_EXPIRATION = last_committed_round[1]

\* C3, first part: a position inserted after a task registered on it has
\* resolved that task's registration; no running task has missed it.
C3_InsertAfterRegisterNotifies ==
    \A w \in Waiters :
        (Registered(waiters, w) /\ waiters[w].ins_since_reg)
            => waiters[w].notified

\* C3, second part: such a task, unless the timeout or the expiration poll
\* decides its race first, returns the reason "Rejected".
C3_InsertAfterRegisterReturnsRejected ==
    \A w \in Waiters :
        (/\ waiters[w].pc = "done"
         /\ waiters[w].ins_since_reg
         /\ waiters[w].outcome \notin {"TimedOut", "Expired"})
            => waiters[w].outcome = "Rejected"

\* C3: no missed wakeup: a task whose position is inserted by a
\* reject_transaction after it registered is notified (or sees the position
\* at its membership check), and hence returns "Rejected" unless another
\* branch decides first.
C3_NoMissedWakeup ==
    /\ C3_InsertAfterRegisterNotifies
    /\ C3_InsertAfterRegisterReturnsRejected

\* C4: a call that finds its position in rejected_transactions at the
\* membership check returns at that step, whatever its timeout, with the
\* reason "Rejected".
C4_MemberReturnsRejected ==
    [][\A w \in Waiters :
          (/\ waiters[w].pc = "checking"
           /\ waiters[w].pos \in rejected_transactions
           /\ waiters'[w] # waiters[w])
              => (/\ waiters'[w].pc = "done"
                  /\ waiters'[w].outcome = "Rejected")]_vars

\* C5: right after update_last_committed_round(R), every position more than
\* ROUND_EXPIRATION rounds behind R is in neither structure, and
\* last_committed_round is R.
C5_ExpiredPurgedByUpdate ==
    [][\A R \in CommitRounds :
          (last_op'.op = "update" /\ last_op'.round = R /\
           update_last_committed_round(R)) =>
              /\ last_committed_round' = Some(R)
              /\ \A p \in MysticetiTransactionPosition :
                    p.round + ROUND_EXPIRATION < R =>
                        /\ p \notin rejected_transactions'
                        /\ p.round \notin DOMAIN round_lookup_map'
                        /\ \A r \in DOMAIN round_lookup_map' :
                              p \notin round_lookup_map'[r]]_vars

\* An update has just removed positions of two different rounds.
C5_Witness ==
    /\ last_op.op = "update"
    /\ last_committed_round = Some(last_op.round)
    /\ \E p, q \in last_op.removed :
          /\ p.round # q.round
          /\ p.round + ROUND_EXPIRATION < last_op.round
          /\ q.round + ROUND_EXPIRATION < last_op.round

\* C6: update_last_committed_round(R) removes a bucket exactly if its round
\* is more than ROUND_EXPIRATION behind R (a bucket exactly ROUND_EXPIRATION
\* behind stays), adds none, leaves every retained bucket as it was, and
\* removes from the set exactly the positions of the removed buckets.
C6_ExactlyExpiredPrefixRemoved ==
    [][\A R \in CommitRounds :
          (last_op'.op = "update" /\ last_op'.round = R /\
           update_last_committed_round(R)) =>
              /\ DOMAIN round_lookup_map' =
                    {r \in DOMAIN round_lookup_map :
                        ~(r + ROUND_EXPIRATION < R)}
              /\ \A r \in DOMAIN round_lookup_map' :
                    round_lookup_map'[r] = round_lookup_map[r]
              /\ rejected_transactions' =
                    {p \in rejected_transactions :
                        ~(p.round + ROUND_EXPIRATION < R)}]_vars

\* An update has just removed an expired round and kept, untouched, the
\* bucket of the round exactly ROUND_EXPIRATION behind it.
C6_Witness ==
    /\ last_op.op = "update"
    /\ last_op.removed # {}
    /\ \E r \in DOMAIN round_lookup_map :
          /\ r + ROUND_EXPIRATION = last_op.round
          /\ round_lookup_map[r] # {}
          /\ \A p \in last_op.removed : p.round < r

\* C7: reject_transaction(P) with last_committed_round set and P more than
\* ROUND_EXPIRATION rounds behind it changes none of the three fields and
\* resolves no registration.
C7_StaleRejectIsNoOp ==
    [][\A p \in MysticetiTransactionPosition :
          (/\ last_committed_round # None
           /\ p.round + ROUND_EXPIRATION < last_committed_round[1]
           /\ last_op'.op = "reject" /\ last_op'.pos = p
           /\ reject_transaction(p))
              => (/\ UNCHANGED inner
                  /\ \A w \in Waiters :
                        waiters'[w].notified = waiters[w].notified)]_vars

\* A stale reject has just returned while a task is registered on that
\* position, and the task is not notified.
C7_Witness ==
    /\ last_op.op = "reject"
    /\ last_op.stale
    /\ last_committed_round # None
    /\ last_op.pos.round + ROUND_EXPIRATION < last_committed_round[1]
    /\ \E w \in Waiters :
          /\ Registered(waiters, w)
          /\ waiters[w].pos = last_op.pos
          /\ ~waiters[w].notified

\* C8: a call on a position that is expired when the call starts and stays
\* expired, with a timeout that is not already due, never suspends and
\* returns "Expired": the first expiration poll decides it.
C8_ExpiredPositionReturnsExpired ==
    \A w \in Waiters :
        (waiters[w].stayed_expired /\ waiters[w].duration > 0) =>
            /\ waiters[w].pc # "suspended"
            /\ waiters[w].pc = "done" => waiters[w].outcome = "Expired"

\* The position was rejected, the last update collected it, and the call
\* that followed has returned "Expired".
C8_Witness ==
    \E w \in Waiters :
        /\ waiters[w].pc = "done"
        /\ waiters[w].outcome = "Expired"
        /\ waiters[w].stayed_expired
        /\ waiters[w].duration > 0
        /\ last_op.op = "update"
        /\ waiters[w].pos \in last_op.removed

\* C9: a call during which the position was never in rejected_transactions
\* and never expired returns "TimedOut".
C9_QuietWaitTimesOut ==
    \A w \in Waiters :
        (waiters[w].pc = "done" /\ waiters[w].clean)
            => waiters[w].outcome = "TimedOut"

\* Such a call has returned after a timeout that was not already due, with
\* a committed round set that keeps the position inside the window.
C9_Witness ==
    \E w \in Waiters :
        /\ waiters[w].pc = "done"
        /\ waiters[w].clean
        /\ waiters[w].outcome = "TimedOut"
        /\ waiters[w].duration > 0
        /\ last_committed_round # None
        /\ waiters[w].pos.round + ROUND_EXPIRATION = last_committed_round[1]

\* C10, the outcomes: a call that has returned carries one of the three
\* reasons "Rejected", "Expired", "TimedOut".
C10_OutcomeIsOneOfThree ==
    \A w \in Waiters :
        waiters[w].pc = "done"
            => waiters[w].outcome \in {"Rejected", "Expired", "TimedOut"}

\* C10, termination: under FairSpec every call that has started returns.
C10_EveryCallReturns ==
    \A w \in Waiters :
        (waiters[w].pc # "idle") ~> (waiters[w].pc = "done")

\* Scheduling: a runnable task is polled, time passes for a suspended task,
\* and a poll of the select polls every branch, so a branch that is ready
\* again and again is taken.
FairSpec ==
    /\ Spec
    /\ \A w \in Waiters :
          /\ WF_vars(wait_read_lock(w))
          /\ WF_vars(wait_check_membership(w))
          /\ WF_vars(expiration_read_lock(w))
          /\ WF_vars(expiration_check(w))
          /\ WF_vars(tick(w))
          /\ SF_vars(select_timeout(w))
          /\ SF_vars(select_registration(w))

\* C11: reject_transaction is idempotent.  A reject of a position that an
\* earlier reject has handled (it is in the set, or it is outside the
\* window) changes none of the three fields; every reject leaves its
\* position in that condition, and no reject takes another position out of
\* the set or changes last_committed_round, so the condition lasts until the
\* next update_last_committed_round.
C11_RejectIdempotent ==
    [][\A p \in MysticetiTransactionPosition :
          (last_op'.op = "reject" /\ last_op'.pos = p /\ reject_transaction(p)) =>
              /\ (last_op.op = "reject" /\ last_op.pos = p) => UNCHANGED inner
              /\ (\/ p \in rejected_transactions
                  \/ (last_committed_round # None /\
                      p.round + ROUND_EXPIRATION < last_committed_round[1]))
                    => UNCHANGED inner
              /\ \/ p \in rejected_transactions'
                 \/ (last_committed_round' # None /\
                     p.round + ROUND_EXPIRATION < last_committed_round'[1])
              /\ rejected_transactions \subseteq rejected_transactions'
              /\ last_committed_round' = last_committed_round]_vars

\* The last two writer calls rejected the same position, which is inside
\* the window and shares its bucket with another position.
C11_Witness ==
    /\ last_op.op = "reject"
    /\ last_op.again
    /\ ~last_op.stale
    /\ last_op.pos \in rejected_transactions
    /\ \E q \in round_lookup_map[last_op.pos.round] : q # last_op.pos

\* C12 as stated: once set, last_committed_round never decreases, whatever
\* the rounds given to update_last_committed_round.
C12_NeverDecreases ==
    [][last_committed_round # None =>
          /\ last_committed_round' # None
          /\ last_committed_round'[1] >= last_committed_round[1]]_vars

\* C12 amended: update_last_committed_round(R) sets last_committed_round to
\* R; once set it stays set, and it decreases only in a call that is given a
\* round below it: over calls with non-decreasing rounds it never decreases.
C12_DecreasesOnlyByLowerRound ==
    [][/\ last_committed_round # None => last_committed_round' # None
       /\ \A R \in CommitRounds :
             (last_op'.op = "update" /\ last_op'.round = R /\
              update_last_committed_round(R)) =>
                 /\ last_committed_round' = Some(R)
                 /\ (last_committed_round # None /\
                     R >= last_committed_round[1])
                       => last_committed_round'[1] >= last_committed_round[1]
       /\ (/\ last_committed_round # None
           /\ last_committed_round' # None
           /\ last_committed_round'[1] < last_committed_round[1])
             => \E R \in CommitRounds :
                   /\ R < last_committed_round[1]
                   /\ last_op'.op = "update" /\ last_op'.round = R
                   /\ update_last_committed_round(R)]_vars

\* An update has just moved a round that was set to a higher one, and has
\* collected positions on the way.
C12_Witness ==
    /\ last_op.op = "update"
    /\ last_op.advanced
    /\ last_op.removed # {}
    /\ last_committed_round = Some(last_op.round)

\* C16: the read lock is held only inside the two synchronous read sections
\* of wait_for_rejection (the membership check and the expiration check); a
\* task that is suspended in the select, or at any other point between
\* them, holds no lock, and when no task is inside a read section the
\* writers' lock is free.
C16_NoLockWhileSuspended ==
    /\ \A w \in Waiters :
          waiters[w].pc = "suspended" => w \notin readers
    /\ \A w \in readers : waiters[w].pc \in {"checking", "expcheck"}
    /\ (\A w \in Waiters : waiters[w].pc \notin {"checking", "expcheck"})
          => readers = {}

\* A task is suspended in the select after a poll that found nothing ready,
\* and both writers can run.
C16_Witness ==
    \E w \in Waiters :
        /\ waiters[w].pc = "suspended"
        /\ waiters[w].sleep_left = 1
        /\ ~waiters[w].notified
        /\ ENABLED reject_transaction(waiters[w].pos)
        /\ ENABLED update_last_committed_round(ROUND_EXPIRATION + 1)

\* C17 (BroadcastSpec): a reject_transaction(P) that is not stale resolves
\* the registration of every task registered on P at that moment and of no
\* other task; a registration starts unresolved whatever was notified
\* before it; so a registration is resolved only if its own position was
\* rejected after it was made.
C17_PerKeyLiveBroadcast ==
    [][/\ \A p \in MysticetiTransactionPosition :
             (/\ last_op'.op = "reject" /\ last_op'.pos = p
              /\ ~(last_committed_round # None /\
                   p.round + ROUND_EXPIRATION < last_committed_round[1])
              /\ reject_transaction(p))
                => \A w \in Waiters :
                      IF waiters[w].pc \notin {"idle", "done"}
                         /\ waiters[w].pos = p
                      THEN waiters'[w].notified
                      ELSE waiters'[w].notified = waiters[w].notified
       /\ \A w \in Waiters :
             (waiters[w].pc = "idle" /\ waiters'[w].pc = "registered")
                => ~waiters'[w].notified
       /\ \A w \in Waiters :
             waiters'[w].notified => waiters'[w].ins_since_reg]_vars

\* The last writer rejected P: the task registered on P is notified, the
\* task registered on another position is not.
C17_Witness ==
    /\ last_op.op = "reject"
    /\ ~last_op.stale
    /\ \E w, v \in Waiters :
          /\ waiters[w].pc \notin {"idle", "done"}
          /\ waiters[w].pos = last_op.pos
          /\ waiters[w].notified
          /\ waiters[v].pc \notin {"idle", "done"}
          /\ waiters[v].pos # last_op.pos
          /\ ~waiters[v].notified

\* Two tasks are registered on the position the last writer rejected: the
\* one registered before the reject is notified, the one registered after
\* it is not.
C17_WitnessLateRegistration ==
    /\ last_op.op = "reject"
    /\ ~last_op.stale
    /\ \E w, v \in Waiters :
          /\ waiters[w].pc \notin {"idle", "done"}
          /\ waiters[w].pos = last_op.pos
          /\ waiters[w].notified
          /\ waiters[v].pc \notin {"idle", "done"}
          /\ waiters[v].pos = last_op.pos
          /\ ~waiters[v].notified

\* ================================================= TransactionManagerV2
\* Scheduling tasks spawned over a run, and ticks of the clock.
MaxTasks == 1

MaxTime == 1

\* epoch_store.epoch(); a stale certificate is of the epoch before it.
CurrentEpoch == 1

\* InputKey::VersionedObject { id, version }.
InputKey(id, version) == [id |-> id, version |-> version]

\* The certificates that arrive: tx1 declares one input object and receives
\* one object, tx0 is of the epoch before.
Certificates ==
    { [digest |-> "tx1", epoch |-> CurrentEpoch,
       input_objects |-> {"o1"}, receiving_objects |-> {<< "o2", 1 >>}],
      [digest |-> "tx0", epoch |-> CurrentEpoch - 1,
       input_objects |-> {"o1"}, receiving_objects |-> {}] }

Digests == {c.digest : c \in {d \in Certificates : d.epoch = CurrentEpoch}}

\* The effects digest a caller expects of a certificate.
EffectsDigest(cert) == << "fx", cert.digest >>

\* A call's batch: one certificate, or two different ones in either order.
Batches ==
    {<< c >> : c \in Certificates} \cup
    {b \in Certificates \X Certificates : b[1] # b[2]}

\* VerifiedExecutableTransaction::new_from_certificate keeps the
\* transaction data, digest and epoch of the certificate.
new_from_certificate(cert) ==
    [digest |-> cert.digest, epoch |-> cert.epoch,
     input_objects |-> cert.input_objects,
     receiving_objects |-> cert.receiving_objects]

\* The epoch store assigns each declared input object its version.
ResolvedKey(id) == InputKey(id, 1)

\* epoch_store.get_input_object_keys: the keys of the declared input
\* objects, or an error.
get_input_object_keys(cert, resolved) ==
    IF resolved
    THEN [ok |-> TRUE, keys |-> {ResolvedKey(id) : id \in cert.input_objects}]
    ELSE [ok |-> FALSE, keys |-> {}]

\* Lines 133-143.
receiving_object_keys(cert) ==
    {InputKey(entry[1], entry[2]) : entry \in cert.receiving_objects}

ObjectKeys ==
    UNION {get_input_object_keys(c, TRUE).keys \cup receiving_object_keys(c) :
              c \in Certificates}

\* Variant: the receiving keys are left out of the wait.
InputKeysOnly(input_object_keys, receiving_keys) == input_object_keys

\* Lines 145-149.
InputAndReceivingKeys(input_object_keys, receiving_keys) ==
    input_object_keys \cup receiving_keys

\* notify_read_input_objects completes once every key's object exists.
InputObjectsAvailable(keys) == keys \subseteq available

\* notify_read_executed_effects completes once the effects of the digest
\* exist.
ExecutedEffectsExist(digest) == digest \in executed

\* History: the full dependency set of a certificate.
FullDependencySet(cert) ==
    {ResolvedKey(id) : id \in cert.input_objects} \cup
    {InputKey(entry[1], entry[2]) : entry \in cert.receiving_objects}

Ended == {"sent", "executed", "unresolved", "cancelled"}

\* Variant: the task is spawned outside the alive-epoch scope.
SpawnDetached(cert, expected_effects_digest) ==
    [cert |-> cert,
     expected_effects_digest |-> expected_effects_digest,
     scoped |-> FALSE,
     pc |-> "spawned",
     enqueue_time |-> None,
     keys |-> {},
     with_stale |-> FALSE,
     available_at_enqueue |-> FullDependencySet(cert) \subseteq available,
     executed_first |-> /\ cert.digest \in executed
                        /\ ~(FullDependencySet(cert) \subseteq available)]

\* Lines 98-106: the task runs within_alive_epoch, which drops it when the
\* epoch has ended.  with_stale (the batch held a certificate the filter
\* dropped), available_at_enqueue and executed_first are history.
SpawnTask(cert, expected_effects_digest) ==
    [cert |-> cert,
     expected_effects_digest |-> expected_effects_digest,
     scoped |-> TRUE,
     pc |-> IF epoch_alive THEN "spawned" ELSE "cancelled",
     enqueue_time |-> None,
     keys |-> {},
     with_stale |-> FALSE,
     available_at_enqueue |-> FullDependencySet(cert) \subseteq available,
     executed_first |-> /\ cert.digest \in executed
                        /\ ~(FullDependencySet(cert) \subseteq available)]

\* Variant: every certificate passes.
EpochFilterKeepsAll(certs) == certs

\* Lines 89-95.
EpochFilter(certs) ==
    LET OfEpoch(cert) == cert[1].epoch = CurrentEpoch
    IN SelectSeq(certs, OfEpoch)

\* Lines 81-108.
enqueue_impl(certs) ==
    LET kept == EpochFilter(certs)
    IN /\ Len(tasks) + Len(kept) <= MaxTasks
       /\ tasks' = tasks \o [i \in 1..Len(kept) |->
                                [SpawnTask(kept[i][1], kept[i][2])
                                    EXCEPT !.with_stale = Len(kept) < Len(certs)]]
       /\ UNCHANGED << epoch_alive, available, executed,
                       tx_ready_certificates, now >>
       /\ UNCHANGED tracker

\* Lines 72-79.
enqueue(certs) ==
    enqueue_impl([i \in DOMAIN certs |-> << certs[i], None >>])

\* Lines 60-70.
enqueue_certificates(certs) ==
    enqueue([i \in DOMAIN certs |-> new_from_certificate(certs[i])])

\* Lines 48-58.
enqueue_with_expected_effects_digest(certs) ==
    enqueue_impl([i \in DOMAIN certs |-> << certs[i][1], Some(certs[i][2]) >>])

\* Variant: ready_time is the origin of the clock.
PendingCertificateAtOrigin(task, ready) ==
    [certificate |-> task.cert,
     expected_effects_digest |-> task.expected_effects_digest,
     waiting_input_objects |-> {},
     stats |-> [enqueue_time |-> task.enqueue_time[1],
                ready_time |-> Some(0)]]

\* Lines 158-166.
PendingCertificate(task, ready) ==
    [certificate |-> task.cert,
     expected_effects_digest |-> task.expected_effects_digest,
     waiting_input_objects |-> {},
     stats |-> [enqueue_time |-> task.enqueue_time[1],
                ready_time |-> Some(ready)]]

\* Variant: a failed resolution goes on to the race with no input keys.
schedule_transaction_ignores_failure(i, resolved) ==
    /\ i \in DOMAIN tasks
    /\ tasks[i].pc = "spawned"
    /\ LET cert == tasks[i].cert
           res == get_input_object_keys(cert, resolved)
       IN tasks' = [tasks EXCEPT ![i] =
                       [@ EXCEPT !.enqueue_time = Some(now),
                                 !.keys = InputAndReceivingKeys(
                                             res.keys,
                                             receiving_object_keys(cert)),
                                 !.pc = "select"]]
    /\ UNCHANGED << epoch_alive, available, executed,
                    tx_ready_certificates, now >>
    /\ UNCHANGED tracker

\* Lines 116-152: the task starts, resolves its keys, and either returns
\* or reaches the select.
schedule_transaction(i, resolved) ==
    /\ i \in DOMAIN tasks
    /\ tasks[i].pc = "spawned"
    /\ LET cert == tasks[i].cert
           res == get_input_object_keys(cert, resolved)
       IN tasks' = [tasks EXCEPT ![i] =
                       IF ~res.ok
                       THEN [@ EXCEPT !.enqueue_time = Some(now),
                                      !.pc = "unresolved"]        \* return
                       ELSE [@ EXCEPT !.enqueue_time = Some(now),
                                      !.keys = InputAndReceivingKeys(
                                                  res.keys,
                                                  receiving_object_keys(cert)),
                                      !.pc = "select"]]
    /\ UNCHANGED << epoch_alive, available, executed,
                    tx_ready_certificates, now >>
    /\ UNCHANGED tracker

\* Lines 155-168: the first branch of the select completes.
notify_read_input_objects_ready(i) ==
    /\ i \in DOMAIN tasks
    /\ tasks[i].pc = "select"
    /\ InputObjectsAvailable(tasks[i].keys)
    /\ tx_ready_certificates' =
          Append(tx_ready_certificates, PendingCertificate(tasks[i], now))
    /\ tasks' = [tasks EXCEPT ![i].pc = "sent"]
    /\ UNCHANGED << epoch_alive, available, executed, now >>
    /\ UNCHANGED tracker

\* Variant: the second branch hands the certificate off as well.
notify_read_executed_effects_sends(i) ==
    /\ i \in DOMAIN tasks
    /\ tasks[i].pc = "select"
    /\ ExecutedEffectsExist(tasks[i].cert.digest)
    /\ tx_ready_certificates' =
          Append(tx_ready_certificates, PendingCertificate(tasks[i], now))
    /\ tasks' = [tasks EXCEPT ![i].pc = "executed"]
    /\ UNCHANGED << epoch_alive, available, executed, now >>
    /\ UNCHANGED tracker

\* Lines 169-170: the second branch of the select completes.
notify_read_executed_effects_ready(i) ==
    /\ i \in DOMAIN tasks
    /\ tasks[i].pc = "select"
    /\ ExecutedEffectsExist(tasks[i].cert.digest)
    /\ tasks' = [tasks EXCEPT ![i].pc = "executed"]
    /\ UNCHANGED << epoch_alive, available, executed,
                    tx_ready_certificates, now >>
    /\ UNCHANGED tracker

\* The object of a key is written to the object cache.
object_written(key) ==
    /\ key \notin available
    /\ available' = available \cup {key}
    /\ UNCHANGED << epoch_alive, executed, tasks,
                    tx_ready_certificates, now >>
    /\ UNCHANGED tracker

\* The effects of a digest are written to the transaction cache.
\* executed_first records, for each running task of that digest, whether
\* some key of its dependency set is still unavailable.
effects_written(digest) ==
    /\ digest \notin executed
    /\ executed' = executed \cup {digest}
    /\ tasks' = [i \in DOMAIN tasks |->
                    IF /\ tasks[i].pc \notin Ended
                       /\ tasks[i].cert.digest = digest
                       /\ ~(FullDependencySet(tasks[i].cert) \subseteq available)
                    THEN [tasks[i] EXCEPT !.executed_first = TRUE]
                    ELSE tasks[i]]
    /\ UNCHANGED << epoch_alive, available,
                    tx_ready_certificates, now >>
    /\ UNCHANGED tracker

\* The epoch ends: within_alive_epoch drops every task running in its scope.
epoch_terminated ==
    /\ epoch_alive
    /\ epoch_alive' = FALSE
    /\ tasks' = [i \in DOMAIN tasks |->
                    IF tasks[i].scoped /\ tasks[i].pc \notin Ended
                    THEN [tasks[i] EXCEPT !.pc = "cancelled"]
                    ELSE tasks[i]]
    /\ UNCHANGED << available, executed,
                    tx_ready_certificates, now >>
    /\ UNCHANGED tracker

\* Instant::now() advances.
clock_tick ==
    /\ now < MaxTime
    /\ now' = now + 1
    /\ UNCHANGED << epoch_alive, available, executed, tasks,
                    tx_ready_certificates >>
    /\ UNCHANGED tracker

TaskIds == 1..MaxTasks

SchedNext ==
    \/ \E certs \in Batches : enqueue(certs)
    \/ \E certs \in Batches : enqueue_certificates(certs)
    \/ \E certs \in Batches :
          enqueue_with_expected_effects_digest(
             [i \in DOMAIN certs |-> << certs[i], EffectsDigest(certs[i]) >>])
    \/ \E i \in TaskIds, resolved \in BOOLEAN : schedule_transaction(i, resolved)
    \/ \E i \in TaskIds : notify_read_input_objects_ready(i)
    \/ \E i \in TaskIds : notify_read_executed_effects_ready(i)
    \/ \E key \in ObjectKeys : object_written(key)
    \/ \E digest \in Digests : effects_written(digest)
    \/ epoch_terminated
    \/ clock_tick

SchedSpec == Init /\ [][SchedNext]_vars

\* ---------------------------------------------------------------- C13
\* C13 as stated (SchedSpec): a task whose dependency keys were all
\* available when its certificate was enqueued has, once it has ended,
\* sent its PendingCertificate.
C13_AvailableAtEnqueueYieldsOne ==
    \A i \in DOMAIN tasks :
       (tasks[i].available_at_enqueue /\ tasks[i].pc \in Ended)
          => tasks[i].pc = "sent"

\* The same for the tasks that resolved their keys and ended in the select
\* while their epoch was alive: the race alone can end them silently.
C13_RaceAlone ==
    \A i \in DOMAIN tasks :
       (tasks[i].available_at_enqueue /\ tasks[i].pc \in {"sent", "executed"})
          => tasks[i].pc = "sent"

\* C13, amended (SchedSpec): when the select of a task whose dependency keys
\* were all available at enqueue is decided while the executed effects of
\* its certificate do not exist, it is decided by one send of the task's
\* certificate with ready_time >= enqueue_time; a task that has sent stays
\* ended, the channel holds one entry per task that has sent, and every
\* entry has ready_time >= enqueue_time.
C13_YieldsOneUnlessRaceLost ==
    [][/\ \A i \in DOMAIN tasks :
             /\ (/\ tasks[i].pc = "select"
                 /\ tasks[i].available_at_enqueue
                 /\ tasks[i].cert.digest \notin executed
                 /\ tasks'[i].pc \notin {"select", "cancelled"})
                   => /\ tasks'[i].pc = "sent"
                      /\ Len(tx_ready_certificates') =
                            Len(tx_ready_certificates) + 1
                      /\ SubSeq(tx_ready_certificates', 1,
                                Len(tx_ready_certificates)) =
                            tx_ready_certificates
                      /\ LET e == tx_ready_certificates'[
                                     Len(tx_ready_certificates')]
                         IN /\ e.certificate = tasks[i].cert
                            /\ e.expected_effects_digest =
                                  tasks[i].expected_effects_digest
                            /\ e.waiting_input_objects = {}
                            /\ e.stats.enqueue_time = tasks[i].enqueue_time[1]
                            /\ e.stats.ready_time = Some(now)
             /\ tasks[i].pc = "sent" => tasks'[i].pc = "sent"
       /\ Len(tx_ready_certificates') =
             Cardinality({j \in DOMAIN tasks' : tasks'[j].pc = "sent"})
       /\ \A k \in DOMAIN tx_ready_certificates' :
             LET e == tx_ready_certificates'[k]
             IN /\ e.stats.ready_time # None
                /\ e.stats.ready_time[1] >= e.stats.enqueue_time]_vars

\* A task whose keys were available at enqueue has sent the one entry of the
\* channel, later than it started.
C13_Witness ==
    /\ Len(tx_ready_certificates) = 1
    /\ \E i \in DOMAIN tasks :
          /\ tasks[i].available_at_enqueue
          /\ tasks[i].pc = "sent"
          /\ tasks[i].cert.digest \notin executed
          /\ tx_ready_certificates[1].certificate = tasks[i].cert
          /\ tx_ready_certificates[1].stats.ready_time[1] >
                tx_ready_certificates[1].stats.enqueue_time

\* ---------------------------------------------------------------- C14
\* C14 as stated (SchedSpec): a task whose certificate's executed effects
\* existed while some key of its dependency set was still unavailable never
\* sends.
C14_ExecutedFirstNeverSends ==
    \A i \in DOMAIN tasks :
       tasks[i].executed_first => tasks[i].pc # "sent"

\* C14, amended (SchedSpec): a select decided while the executed effects
\* exist and some dependency key is unavailable is decided by the second
\* branch; a task ended by the second branch sends nothing at that step and
\* stays ended; and the channel grows only by the step of a task whose first
\* branch wins, so nothing is ever sent for it.
C14_ExecutedBranchEndsSilently ==
    [][/\ \A i \in DOMAIN tasks :
             /\ (tasks[i].pc = "select" /\ tasks'[i].pc = "executed")
                   => tx_ready_certificates' = tx_ready_certificates
             /\ tasks[i].pc = "executed" => tasks'[i] = tasks[i]
             /\ (/\ tasks[i].pc = "select"
                 /\ tasks[i].cert.digest \in executed
                 /\ ~(FullDependencySet(tasks[i].cert) \subseteq available)
                 /\ tasks'[i].pc \notin {"select", "cancelled"})
                   => /\ tasks'[i].pc = "executed"
                      /\ tx_ready_certificates' = tx_ready_certificates
       /\ tx_ready_certificates' # tx_ready_certificates
             => \E j \in DOMAIN tasks :
                   /\ tasks[j].pc = "select"
                   /\ tasks'[j].pc = "sent"
                   /\ Len(tx_ready_certificates') =
                         Len(tx_ready_certificates) + 1]_vars

\* A task ended by the second branch; its inputs became available later;
\* the channel is empty.
C14_Witness ==
    /\ tx_ready_certificates = << >>
    /\ \E i \in DOMAIN tasks :
          /\ tasks[i].executed_first
          /\ tasks[i].pc = "executed"
          /\ FullDependencySet(tasks[i].cert) \subseteq available

\* ---------------------------------------------------------------- C15
\* C15 (SchedSpec): each of the three enqueue entry points spawns one task
\* for each certificate of the batch whose epoch is the epoch store's, in
\* order, none for any other certificate, and sends nothing itself; so no
\* task and no PendingCertificate ever carries a certificate of another
\* epoch.
C15_StaleEpochFiltered ==
    [][/\ \A certs \in Batches :
             (\/ enqueue(certs)
              \/ enqueue_certificates(certs)
              \/ enqueue_with_expected_effects_digest(
                    [i \in DOMAIN certs |->
                        << certs[i], EffectsDigest(certs[i]) >>]))
                => LET OfEpoch(cert) == cert.epoch = CurrentEpoch
                       kept == SelectSeq(certs, OfEpoch)
                   IN /\ Len(tasks') = Len(tasks) + Len(kept)
                      /\ SubSeq(tasks', 1, Len(tasks)) = tasks
                      /\ \A k \in 1..Len(kept) :
                            tasks'[Len(tasks) + k].cert = kept[k]
                      /\ tx_ready_certificates' = tx_ready_certificates
       /\ \A i \in DOMAIN tasks' : tasks'[i].cert.epoch = CurrentEpoch
       /\ \A k \in DOMAIN tx_ready_certificates' :
             tx_ready_certificates'[k].certificate.epoch = CurrentEpoch]_vars

\* A batch held a certificate of another epoch; the task of its certificate
\* of the current epoch has sent.
C15_Witness ==
    \E i \in DOMAIN tasks :
       /\ tasks[i].with_stale
       /\ tasks[i].pc = "sent"
       /\ \E k \in DOMAIN tx_ready_certificates :
             tx_ready_certificates[k].certificate = tasks[i].cert

\* ---------------------------------------------------------------- C18
\* C18 (SchedSpec): at the step that sends a PendingCertificate, every
\* resolved input key and every receiving key of its certificate is
\* available; so is every key of every certificate on the channel.
C18_SentOnlyWhenAllAvailable ==
    [][/\ Len(tx_ready_certificates') > Len(tx_ready_certificates)
             => LET cert == tx_ready_certificates'[
                               Len(tx_ready_certificates')].certificate
                IN /\ \A id \in cert.input_objects :
                         ResolvedKey(id) \in available
                   /\ \A entry \in cert.receiving_objects :
                         InputKey(entry[1], entry[2]) \in available
       /\ \A k \in DOMAIN tx_ready_certificates' :
             FullDependencySet(tx_ready_certificates'[k].certificate)
                \subseteq available']_vars

\* A task that had to wait for a key has sent a certificate that has
\* receiving objects.
C18_Witness ==
    \E i \in DOMAIN tasks :
       /\ tasks[i].pc = "sent"
       /\ ~tasks[i].available_at_enqueue
       /\ tasks[i].cert.receiving_objects # {}
       /\ tasks[i].keys = FullDependencySet(tasks[i].cert)
       /\ tx_ready_certificates # << >>

\* ---------------------------------------------------------------- C19
\* C19 (SchedSpec): the step of schedule_transaction in which key
\* resolution fails ends the task without entering the select and without
\* sending; the ended task never changes again, and the channel grows only
\* by the step of a task in the select.
C19_ResolutionFailureEndsTask ==
    [][/\ \A i \in DOMAIN tasks :
             /\ (tasks[i].pc = "spawned" /\ schedule_transaction(i, FALSE))
                   => /\ tasks'[i].pc = "unresolved"
                      /\ tasks'[i].keys = {}
                      /\ tx_ready_certificates' = tx_ready_certificates
             /\ tasks[i].pc = "unresolved" => tasks'[i] = tasks[i]
       /\ Len(tx_ready_certificates') > Len(tx_ready_certificates)
             => \E j \in DOMAIN tasks :
                   tasks[j].pc = "select" /\ tasks'[j].pc # "select"]_vars

\* A task ended by a failed resolution, with every key of its certificate
\* available and its effects executed; nothing was sent.
C19_Witness ==
    /\ tx_ready_certificates = << >>
    /\ \E i \in DOMAIN tasks :
          /\ tasks[i].pc = "unresolved"
          /\ tasks[i].enqueue_time # None
          /\ FullDependencySet(tasks[i].cert) \subseteq available
          /\ tasks[i].cert.digest \in executed

\* ---------------------------------------------------------------- C20
\* C20 (SchedSpec): every task is spawned in the alive-epoch scope; once
\* the epoch has ended every task has ended and no step sends.
C20_NoSendAfterEpochEnd ==
    [][/\ \A i \in DOMAIN tasks' : tasks'[i].scoped
       /\ ~epoch_alive
             => /\ tx_ready_certificates' = tx_ready_certificates
                /\ \A i \in DOMAIN tasks : tasks[i].pc \in Ended
                /\ \A i \in DOMAIN tasks' : tasks'[i].pc \in Ended]_vars

\* The epoch has ended; a task was dropped in its select, its keys are all
\* available now, and nothing was sent.
C20_Witness ==
    /\ ~epoch_alive
    /\ tx_ready_certificates = << >>
    /\ \E i \in DOMAIN tasks :
          /\ tasks[i].pc = "cancelled"
          /\ tasks[i].keys # {}
          /\ ~tasks[i].available_at_enqueue
          /\ tasks[i].keys \subseteq available

\* ---------------------------------------------------------------- C21
\* C21 (Spec): a position enters rejected_transactions only by a
\* reject_transaction of that position that is inside the retention window,
\* and a call's history records an insert only at such a step; a call
\* returns the reason "Rejected" only if its position was so inserted after
\* it registered, and returns any reason other than "Expired" and
\* "TimedOut" only if its position was so inserted after it registered or
\* is in rejected_transactions at the return.  Hence a call whose position
\* is never rejected, or rejected only by stale calls, returns "Expired" or
\* "TimedOut".
C21_NoSpuriousRejected ==
    [][/\ \A p \in rejected_transactions' \ rejected_transactions :
             /\ last_op'.op = "reject"
             /\ last_op'.pos = p
             /\ ~last_op'.stale
             /\ ~(last_committed_round # None /\
                  p.round + ROUND_EXPIRATION < last_committed_round[1])
       /\ \A w \in Waiters :
             /\ (~waiters[w].ins_since_reg /\ waiters'[w].ins_since_reg)
                   => /\ waiters[w].pc \notin {"idle", "done"}
                      /\ waiters[w].pos \in rejected_transactions'
                      /\ last_op'.op = "reject"
                      /\ last_op'.pos = waiters[w].pos
                      /\ ~last_op'.stale
                      /\ ~(last_committed_round # None /\
                           waiters[w].pos.round + ROUND_EXPIRATION
                              < last_committed_round[1])
             /\ (waiters[w].pc # "done" /\ waiters'[w].pc = "done")
                   => /\ waiters'[w].outcome = "Rejected"
                            => waiters[w].ins_since_reg
                      /\ waiters'[w].outcome \notin {"Expired", "TimedOut"}
                            => \/ waiters[w].ins_since_reg
                               \/ waiters[w].pos \in rejected_transactions]_vars

\* The last writer was a stale reject_transaction of the position of a call
\* in progress; the position was never inserted during the call, and the
\* call has returned "Expired".
C21_Witness ==
    /\ last_op.op = "reject"
    /\ last_op.stale
    /\ \E w \in Waiters :
          /\ waiters[w].pc = "done"
          /\ waiters[w].pos = last_op.pos
          /\ ~waiters[w].ins_since_reg
          /\ waiters[w].pos \notin rejected_transactions
          /\ waiters[w].outcome = "Expired"

\* A call has returned "Rejected"; its position was inserted after it
\* registered.
C21_WitnessRejected ==
    \E w \in Waiters :
       /\ waiters[w].pc = "done"
       /\ waiters[w].outcome = "Rejected"
       /\ waiters[w].ins_since_reg

====
